---- MODULE Spec2Model ----
(***************************************************************************)
(* The three CMS adapters of src/tools: cmsContentManifest,                *)
(* cmsContentTypes and cmsContentDelivery.  Each builds a request URL and  *)
(* a header set, awaits one fetch, decodes the response body and returns   *)
(* an envelope or throws.                                                  *)
(*                                                                         *)
(* Strings the code takes apart (cmsUrl, the values it percent-encodes,    *)
(* the URL it builds) are sequences of tokens, "/" always a token of its   *)
(* own; strings it only compares or interpolates are TLA+ strings.         *)
(* A parameter bag carries `keys`, the names the caller supplied in the    *)
(* caller's order; a name not in `keys` destructures to undefined and its  *)
(* field holds the falsy value of its type.                                *)
(***************************************************************************)
EXTENDS Integers, Sequences, FiniteSets, TLC

VARIABLES adapter, parameters, pc, fullUrl, fetchLog, response,
          responseHeaders, pending, outcome

vars == <<adapter, parameters, pc, fullUrl, fetchLog, response,
          responseHeaders, pending, outcome>>

\* Bounds: the trailing slashes of cmsUrl, the optional parameters of a call.
MaxTrailingSlashes == 2
MaxSupplied == 4

(***************************************************************************)
(* Strings                                                                 *)
(***************************************************************************)
Origin == <<"https:", "/", "/", "host.example">>

RECURSIVE Slashes(_)
Slashes(n) == IF n = 0 THEN <<>> ELSE <<"/">> \o Slashes(n - 1)

CmsUrls == {Origin \o Slashes(n) : n \in 0..MaxTrailingSlashes}

\* A value is truthy unless it is undefined, "", 0 (or NaN, null, false).
TruthyStr(s) == s # ""
TruthySeq(s) == Len(s) > 0
TruthyNum(n) == n # 0

Has(p, k) == \E i \in DOMAIN p.keys : p.keys[i] = k

\* `${n}` for a non-negative integer.
DigitChar == <<"0", "1", "2", "3", "4", "5", "6", "7", "8", "9">>

RECURSIVE NumberToString(_)
NumberToString(n) ==
    IF n < 10 THEN <<DigitChar[n + 1]>>
    ELSE NumberToString(n \div 10) \o <<DigitChar[(n % 10) + 1]>>

BooleanToString(b) == IF b THEN "true" ELSE "false"

\* A lone UTF-16 surrogate, on which encodeURIComponent throws URIError.
LoneSurrogate == "U+D800"

EncodeChar(c) ==
    CASE c = "/" -> "%2F"
      [] c = ":" -> "%3A"
      [] c = "," -> "%2C"
      [] c = " " -> "%20"
      [] c = "&" -> "%26"
      [] c = "=" -> "%3D"
      [] c = "?" -> "%3F"
      [] OTHER -> c

Malformed(s) == \E i \in DOMAIN s : s[i] = LoneSurrogate

encodeURIComponent(s) == [i \in 1..Len(s) |-> EncodeChar(s[i])]

RECURSIVE Join(_, _)
Join(parts, sep) ==
    IF Len(parts) = 0 THEN <<>>
    ELSE IF Len(parts) = 1 THEN parts[1]
    ELSE parts[1] \o <<sep>> \o Join(Tail(parts), sep)

(***************************************************************************)
(* URL construction                                                        *)
(***************************************************************************)
\* A faulty BaseUrl: the trailing slash is kept.
BaseUrlKeepSlash(cmsUrl) == cmsUrl

\* cmsUrl.endsWith('/') ? cmsUrl.slice(0, -1) : cmsUrl
BaseUrl(cmsUrl) ==
    IF Len(cmsUrl) > 0 /\ cmsUrl[Len(cmsUrl)] = "/"
    THEN SubSeq(cmsUrl, 1, Len(cmsUrl) - 1)
    ELSE cmsUrl

ApiPrefix == <<"/", "api", "/", "episerver", "/", "v3.0", "/">>

Throw(msg) == [throws |-> TRUE, message |-> msg]
Built(url) == [throws |-> FALSE, url |-> url]
Route(path, query) == [throws |-> FALSE, apiPath |-> path, queryParams |-> query]

ManifestUrl(p) ==
    LET baseUrl == BaseUrl(p.cmsUrl)
        apiPath == ApiPrefix \o <<"contentmanifest">> \o
                   (IF Has(p, "includeSystemTypes")
                    THEN <<"?", "includeSystemTypes=",
                           BooleanToString(p.includeSystemTypes)>>
                    ELSE <<>>)
    IN  Built(baseUrl \o apiPath)

TypesUrl(p) ==
    LET baseUrl == BaseUrl(p.cmsUrl)
        apiPath == IF TruthyStr(p.contentTypeId)
                   THEN ApiPrefix \o <<"contenttypes", "/", p.contentTypeId>>
                   ELSE ApiPrefix \o <<"contenttypes">>
    IN  Built(baseUrl \o apiPath)

KnownOperations ==
    {"get-all-sites", "get-site-by-id", "get-content-by-reference",
     "get-content-by-guid", "get-content-by-url", "get-children"}

LowerCase(op) ==
    CASE op = "GET-ALL-SITES" -> "get-all-sites"
      [] OTHER -> op

\* A faulty MatchOperation: the identifier is lower-cased before the match.
MatchOperationIgnoringCase(op) == LowerCase(op)

\* The case label the switch selects: the operation itself (===), or none.
MatchOperation(op) == op

\* switch (operation) { ... }: the path and the operation's own query
\* parameters, or the error thrown.
OperationCase(p) ==
    LET op == MatchOperation(p.operation) IN
    CASE op = "get-all-sites" -> Route(ApiPrefix \o <<"site">>, <<>>)
      [] op = "get-site-by-id" ->
            IF ~TruthyStr(p.siteId)
            THEN Throw(<<"siteId is required for get-site-by-id operation">>)
            ELSE Route(ApiPrefix \o <<"site", "/", p.siteId>>, <<>>)
      [] op = "get-content-by-reference" ->
            IF ~TruthyStr(p.contentReference)
            THEN Throw(<<"contentReference is required for get-content-by-reference operation">>)
            ELSE Route(ApiPrefix \o <<"content", "/", p.contentReference>>, <<>>)
      [] op = "get-content-by-guid" ->
            IF ~TruthyStr(p.contentGuid)
            THEN Throw(<<"contentGuid is required for get-content-by-guid operation">>)
            ELSE Route(ApiPrefix \o <<"content", "/", p.contentGuid>>, <<>>)
      [] op = "get-content-by-url" ->
            IF ~TruthySeq(p.contentUrl)
            THEN Throw(<<"contentUrl is required for get-content-by-url operation">>)
            ELSE IF Malformed(p.contentUrl)
            THEN Throw(<<"URI malformed">>)
            ELSE Route(ApiPrefix \o <<"content">>,
                       <<<<"contentUrl=">> \o encodeURIComponent(p.contentUrl)>>)
      [] op = "get-children" ->
            IF ~TruthyStr(p.contentReference) /\ ~TruthyStr(p.contentGuid)
            THEN Throw(<<"Either contentReference or contentGuid is required for get-children operation">>)
            ELSE Route(ApiPrefix \o <<"content", "/">> \o
                          (IF TruthyStr(p.contentReference)
                           THEN <<p.contentReference>>
                           ELSE <<p.contentGuid>>) \o <<"/", "children">>,
                       IF TruthyNum(p.top)
                       THEN <<<<"top=">> \o NumberToString(p.top)>>
                       ELSE <<>>)
      [] OTHER -> Throw(<<"Unknown operation: ", p.operation>>)

\* A faulty CommonQuery: the query parameters are pushed while iterating the
\* caller's keys.
RECURSIVE PushInSuppliedOrder(_, _, _)
PushInSuppliedOrder(p, keys, specific) ==
    IF Len(keys) = 0 THEN <<>>
    ELSE LET k == Head(keys)
             rest == PushInSuppliedOrder(p, Tail(keys), specific)
         IN  IF (k = "contentUrl" /\ p.operation = "get-content-by-url")
                \/ (k = "top" /\ p.operation = "get-children")
             THEN specific \o rest
             ELSE IF k = "expand" /\ TruthySeq(p.expand)
             THEN <<<<"expand=">> \o encodeURIComponent(p.expand)>> \o rest
             ELSE IF k = "select" /\ TruthySeq(p.select)
             THEN <<<<"select=">> \o encodeURIComponent(p.select)>> \o rest
             ELSE rest

CommonQueryInSuppliedOrder(p, queryParams) ==
    IF (TruthySeq(p.expand) /\ Malformed(p.expand))
       \/ (TruthySeq(p.select) /\ Malformed(p.select))
    THEN Throw(<<"URI malformed">>)
    ELSE [throws |-> FALSE,
          queryParams |-> PushInSuppliedOrder(p, p.keys, queryParams)]

\* if (expand) queryParams.push(...); if (select) queryParams.push(...)
CommonQuery(p, queryParams) ==
    IF TruthySeq(p.expand) /\ Malformed(p.expand)
    THEN Throw(<<"URI malformed">>)
    ELSE IF TruthySeq(p.select) /\ Malformed(p.select)
    THEN Throw(<<"URI malformed">>)
    ELSE [throws |-> FALSE,
          queryParams |->
              queryParams
              \o (IF TruthySeq(p.expand)
                  THEN <<<<"expand=">> \o encodeURIComponent(p.expand)>>
                  ELSE <<>>)
              \o (IF TruthySeq(p.select)
                  THEN <<<<"select=">> \o encodeURIComponent(p.select)>>
                  ELSE <<>>)]

DeliveryUrl(p) ==
    LET baseUrl == BaseUrl(p.cmsUrl)
        route == OperationCase(p)
    IN  IF route.throws THEN route
        ELSE LET q == CommonQuery(p, route.queryParams) IN
             IF q.throws THEN q
             ELSE Built(baseUrl \o route.apiPath
                        \o (IF Len(q.queryParams) > 0
                            THEN <<"?">> \o Join(q.queryParams, "&")
                            ELSE <<>>))

(***************************************************************************)
(* Request headers                                                         *)
(***************************************************************************)
JsonHeaders ==
    ("Accept" :> <<"application/json">>)
    @@ ("Content-Type" :> <<"application/json">>)

\* A faulty OptionalAuthHeaders: Authorization is set without the test.
OptionalAuthHeadersAlways(p) ==
    JsonHeaders @@ ("Authorization" :> <<"Bearer ", p.authToken>>)

\* cmsContentManifest and cmsContentTypes: if (authToken) headers["Authorization"] = ...
OptionalAuthHeaders(p) ==
    IF TruthyStr(p.authToken)
    THEN JsonHeaders @@ ("Authorization" :> <<"Bearer ", p.authToken>>)
    ELSE JsonHeaders

DeliveryHeaders(p) ==
    LET headers == JsonHeaders @@ ("Authorization" :> <<"Bearer ", p.authToken>>)
    IN  IF TruthyStr(p.language)
        THEN headers @@ ("Accept-Language" :> <<p.language>>)
        ELSE headers

Request(url, headers) == [url |-> url, method |-> "GET", headers |-> headers]

(***************************************************************************)
(* Parameter bags                                                          *)
(***************************************************************************)
AuthTokens == {"", "tok"}
ContentTypeIds == {"", "page"}
ContentReferences == {"", "5"}
ContentGuids == {"", "abc-123"}
SiteIds == {"", "site-1"}
ContentUrls == {<<>>, <<"/", "en", "/", "news">>}
Languages == {"", "sv"}
Expands == {<<>>, <<"contentArea", ",", "blocks">>, <<LoneSurrogate>>}
Selects == {<<>>, <<"name", ",", "url">>}
Tops == {0, 10}
Operations == KnownOperations \cup {"delete-content", "GET-ALL-SITES"}

\* The sequence `order` without the names outside S.
Supplied(order, S) == SelectSeq(order, LAMBDA k : k \in S)

\* Every order in which the caller may write the names in Q.
Orders(Q) ==
    {s \in [1..Cardinality(Q) -> Q] :
        \A i, j \in DOMAIN s : i # j => s[i] # s[j]}

UpTo(n, keys) == {S \in SUBSET keys : Cardinality(S) <= n}

ManifestOptional == {"authToken", "includeSystemTypes"}

ManifestValues(S) ==
    [authToken : IF "authToken" \in S THEN AuthTokens ELSE {""},
     includeSystemTypes : IF "includeSystemTypes" \in S THEN BOOLEAN ELSE {FALSE}]

ManifestBag(u, S, v) ==
    [keys |-> <<"cmsUrl">> \o Supplied(<<"authToken", "includeSystemTypes">>, S),
     cmsUrl |-> u, authToken |-> v.authToken,
     includeSystemTypes |-> v.includeSystemTypes]

TypesOptional == {"authToken", "contentTypeId"}

TypesValues(S) ==
    [authToken : IF "authToken" \in S THEN AuthTokens ELSE {""},
     contentTypeId : IF "contentTypeId" \in S THEN ContentTypeIds ELSE {""}]

TypesBag(u, S, v) ==
    [keys |-> <<"cmsUrl">> \o Supplied(<<"authToken", "contentTypeId">>, S),
     cmsUrl |-> u, authToken |-> v.authToken,
     contentTypeId |-> v.contentTypeId]

DeliveryOptional ==
    {"contentReference", "contentGuid", "siteId", "contentUrl", "language",
     "expand", "select", "top"}
DeliveryQueryKeys == {"contentUrl", "top", "expand", "select"}

DeliveryValues(S) ==
    [contentReference : IF "contentReference" \in S THEN ContentReferences ELSE {""},
     contentGuid : IF "contentGuid" \in S THEN ContentGuids ELSE {""},
     siteId : IF "siteId" \in S THEN SiteIds ELSE {""},
     contentUrl : IF "contentUrl" \in S THEN ContentUrls ELSE {<<>>},
     language : IF "language" \in S THEN Languages ELSE {""},
     expand : IF "expand" \in S THEN Expands ELSE {<<>>},
     select : IF "select" \in S THEN Selects ELSE {<<>>},
     top : IF "top" \in S THEN Tops ELSE {0}]

\* The bag a caller writes: the query parameters last, in the order `order`.
DeliveryBag(u, op, S, v, order) ==
    [keys |-> <<"cmsUrl", "authToken", "operation">>
              \o Supplied(<<"contentReference", "contentGuid", "siteId",
                            "language">>, S)
              \o order,
     cmsUrl |-> u, authToken |-> "tok", operation |-> op,
     contentReference |-> v.contentReference, contentGuid |-> v.contentGuid,
     siteId |-> v.siteId, contentUrl |-> v.contentUrl,
     language |-> v.language, expand |-> v.expand, select |-> v.select,
     top |-> v.top]

(***************************************************************************)
(* The Response of fetch                                                   *)
(***************************************************************************)
NoHeaders == [h \in {} |-> <<>>]

Statuses == {200, 299, 300, 404}
StatusTexts == {"", "Not Found"}
HeaderSets ==
    {NoHeaders,
     "content-type" :> <<"text/html">>,
     "content-type" :> <<"application/json", "; charset=utf-8">>}
Bodies == {"[1]", "<html>", ""}
FetchErrors == {"fetch failed"}

\* The texts JSON.parse accepts.
JsonTexts == {"[1]"}

Responses ==
    [status : Statuses, statusText : StatusTexts, headers : HeaderSets,
     body : Bodies, streamFails : BOOLEAN, bodyUsed : {FALSE}]

NoResponse == [none |-> TRUE]
NoPending == [settled |-> FALSE]
Resolved(v) == [settled |-> TRUE, rejected |-> FALSE, value |-> v]
Rejected(m) == [settled |-> TRUE, rejected |-> TRUE, message |-> m]

\* response.json() (parse) and response.text(), called on the response r:
\* a body already read cannot be read again, a read fails with the stream,
\* and json() rejects a text JSON.parse does not accept.
BodyRead(r, parse) ==
    IF r.bodyUsed
    THEN Rejected("Body is unusable: Body has already been read")
    ELSE IF r.streamFails THEN Rejected("terminated")
    ELSE IF ~parse THEN Resolved([text |-> r.body])
    ELSE IF r.body \in JsonTexts THEN Resolved([json |-> r.body])
    ELSE Rejected("Unexpected token in JSON")

\* contentType && contentType.includes("application/json")
DeclaresJson(r) ==
    /\ "content-type" \in DOMAIN r.headers
    /\ \E i \in DOMAIN r.headers["content-type"] :
           r.headers["content-type"][i] = "application/json"

\* A faulty ResponseOk: redirects count as success.
ResponseOkBelow400(status) == status < 400

\* response.ok
ResponseOk(status) == status \in 200..299

\* A faulty Envelope: the failure envelope carries the headers too.
EnvelopeWithHeaders(r, responseBody, url, hdrs) ==
    IF ~ResponseOk(r.status)
    THEN [success |-> FALSE, status |-> r.status, statusText |-> r.statusText,
          error |-> responseBody, url |-> url, headers |-> hdrs]
    ELSE [success |-> TRUE, status |-> r.status, statusText |-> r.statusText,
          data |-> responseBody, url |-> url, headers |-> hdrs]

\* if (!response.ok) return {...}; return {...}
Envelope(r, responseBody, url, hdrs) ==
    IF ~ResponseOk(r.status)
    THEN [success |-> FALSE, status |-> r.status, statusText |-> r.statusText,
          error |-> responseBody, url |-> url]
    ELSE [success |-> TRUE, status |-> r.status, statusText |-> r.statusText,
          data |-> responseBody, url |-> url, headers |-> hdrs]

Label(a) ==
    CASE a = "cmsContentManifest" -> "CMS Content Manifest API call failed: "
      [] a = "cmsContentTypes" -> "CMS Content Types API call failed: "
      [] a = "cmsContentDelivery" -> "CMS Content Delivery API call failed: "

Pending == [kind |-> "pending"]
Returned(e) == [kind |-> "returned", envelope |-> e]
Raised(m) == [kind |-> "raised", message |-> m]

(***************************************************************************)
(* The adapters                                                            *)
(***************************************************************************)
Init ==
    /\ adapter = "none"
    /\ parameters = [keys |-> <<>>]
    /\ pc = "idle"
    /\ fullUrl = <<>>
    /\ fetchLog = <<>>
    /\ response = NoResponse
    /\ responseHeaders = NoHeaders
    /\ pending = NoPending
    /\ outcome = Pending

\* The synchronous part of a call, to the throw or to the await of fetch.
Call(a, p, built, headers) ==
    /\ pc = "idle"
    /\ adapter' = a
    /\ parameters' = p
    /\ IF built.throws
       THEN /\ pc' = "done"
            /\ outcome' = Raised(built.message)
            /\ UNCHANGED <<fullUrl, fetchLog>>
       ELSE /\ pc' = "awaitFetch"
            /\ fullUrl' = built.url
            /\ fetchLog' = Append(fetchLog, Request(built.url, headers))
            /\ UNCHANGED outcome
    /\ UNCHANGED <<response, responseHeaders, pending>>

cmsContentManifest(p) ==
    Call("cmsContentManifest", p, ManifestUrl(p), OptionalAuthHeaders(p))

cmsContentTypes(p) ==
    Call("cmsContentTypes", p, TypesUrl(p), OptionalAuthHeaders(p))

cmsContentDelivery(p) ==
    Call("cmsContentDelivery", p, DeliveryUrl(p), DeliveryHeaders(p))

\* A faulty FetchRejects: the first rejection is answered by a second fetch.
FetchRejectsRetrying(m) ==
    /\ pc = "awaitFetch"
    /\ IF Len(fetchLog) < 2
       THEN /\ fetchLog' = Append(fetchLog, fetchLog[1])
            /\ UNCHANGED <<pc, outcome>>
       ELSE /\ pc' = "done"
            /\ outcome' = Raised(<<Label(adapter), m>>)
            /\ UNCHANGED fetchLog
    /\ UNCHANGED <<adapter, parameters, fullUrl, response, responseHeaders,
                   pending>>

\* fetch rejects: catch (error) { throw new Error(label + error.message) }
FetchRejects(m) ==
    /\ pc = "awaitFetch"
    /\ pc' = "done"
    /\ outcome' = Raised(<<Label(adapter), m>>)
    /\ UNCHANGED <<adapter, parameters, fullUrl, fetchLog, response,
                   responseHeaders, pending>>

\* fetch resolves with r: the headers are copied and the body read starts.
FetchResolves(r) ==
    /\ pc = "awaitFetch"
    /\ responseHeaders' = r.headers
    /\ response' = [r EXCEPT !.bodyUsed = TRUE]
    /\ pending' = BodyRead(r, DeclaresJson(r))
    /\ pc' = IF DeclaresJson(r) THEN "awaitJson" ELSE "awaitText"
    /\ UNCHANGED <<adapter, parameters, fullUrl, fetchLog, outcome>>

Return(responseBody) ==
    /\ pc' = "done"
    /\ outcome' = Returned(Envelope(response, responseBody, fullUrl,
                                    responseHeaders))
    /\ UNCHANGED <<adapter, parameters, fullUrl, fetchLog, response,
                   responseHeaders, pending>>

\* response.json() settles: try { ... } catch { responseBody = await response.text() }
JsonSettles ==
    /\ pc = "awaitJson"
    /\ IF pending.rejected
       THEN /\ pending' = BodyRead(response, FALSE)
            /\ pc' = "awaitText"
            /\ UNCHANGED <<adapter, parameters, fullUrl, fetchLog, response,
                           responseHeaders, outcome>>
       ELSE Return(pending.value)

\* response.text() settles.
TextSettles ==
    /\ pc = "awaitText"
    /\ IF pending.rejected
       THEN /\ pc' = "done"
            /\ outcome' = Raised(<<Label(adapter), pending.message>>)
            /\ UNCHANGED <<adapter, parameters, fullUrl, fetchLog, response,
                           responseHeaders, pending>>
       ELSE Return(pending.value)

\* The call is over: nothing of it is kept for the next one.
Discard ==
    /\ pc = "done"
    /\ adapter' = "none"
    /\ parameters' = [keys |-> <<>>]
    /\ pc' = "idle"
    /\ fullUrl' = <<>>
    /\ fetchLog' = <<>>
    /\ response' = NoResponse
    /\ responseHeaders' = NoHeaders
    /\ pending' = NoPending
    /\ outcome' = Pending

\* Any caller's call of an adapter, with a base URL of `urls` and at most n
\* optional parameters.
CallManifest(urls) ==
    \E u \in urls, S \in SUBSET ManifestOptional :
        \E v \in ManifestValues(S) : cmsContentManifest(ManifestBag(u, S, v))

CallTypes(urls) ==
    \E u \in urls, S \in SUBSET TypesOptional :
        \E v \in TypesValues(S) : cmsContentTypes(TypesBag(u, S, v))

CallDelivery(urls, n) ==
    \E u \in urls, op \in Operations, S \in UpTo(n, DeliveryOptional) :
        \E v \in DeliveryValues(S), order \in Orders(S \cap DeliveryQueryKeys) :
            cmsContentDelivery(DeliveryBag(u, op, S, v, order))

\* Bound on the optional parameters of the calls followed to their end.
MaxSuppliedLifecycle == 2

Next ==
    \/ pc = "idle" /\ CallManifest(CmsUrls)
    \/ pc = "idle" /\ CallTypes(CmsUrls)
    \/ pc = "idle" /\ CallDelivery(CmsUrls, MaxSuppliedLifecycle)
    \/ \E r \in Responses : FetchResolves(r)
    \/ \E m \in FetchErrors : FetchRejects(m)
    \/ JsonSettles
    \/ TextSettles
    \/ Discard

Spec == Init /\ [][Next]_vars

\* Request construction alone, with more parameters supplied.
NextRequest ==
    \/ pc = "idle" /\ CallManifest(CmsUrls)
    \/ pc = "idle" /\ CallTypes(CmsUrls)
    \/ pc = "idle" /\ CallDelivery(CmsUrls, MaxSupplied)
    \/ Discard

SpecRequest == Init /\ [][NextRequest]_vars

(***************************************************************************)
(* Properties                                                              *)
(***************************************************************************)
Called(a) == adapter = a /\ pc # "idle"
Requested == Len(fetchLog) > 0
Responded == pc = "done" /\ Len(fetchLog) > 0 /\ response # NoResponse

\* A string parameter is present when the caller supplied a non-empty value.
PresentStr(k, v) == Has(parameters, k) /\ v # ""
PresentSeq(k, v) == Has(parameters, k) /\ v # <<>>

\* The position of the token t in the sequence s, 0 when it has none.
Pos(s, t) ==
    IF \E i \in DOMAIN s : s[i] = t
    THEN CHOOSE i \in DOMAIN s : s[i] = t /\ \A j \in 1..(i - 1) : s[j] # t
    ELSE 0

Count(s, t) == Cardinality({i \in DOMAIN s : s[i] = t})

\* C1: every returned envelope has success true exactly when the response's
\* status is in 200..299; a successful envelope has data and no error, a
\* failed one has error and no data.
EnvelopeSuccessIffOk ==
    outcome.kind = "returned" =>
        LET e == outcome.envelope IN
        /\ e.success <=> (response.status >= 200 /\ response.status <= 299)
        /\ e.status = response.status
        /\ e.success => "data" \in DOMAIN e /\ "error" \notin DOMAIN e
        /\ ~e.success => "error" \in DOMAIN e /\ "data" \notin DOMAIN e

EnvelopeRedirectIsFailure ==
    /\ outcome.kind = "returned"
    /\ response.status = 300
    /\ ~outcome.envelope.success
    /\ "error" \in DOMAIN outcome.envelope

\* The required identifying parameter of the operation is absent.
RequiredAbsent(p) ==
    \/ p.operation = "get-site-by-id" /\ ~Has(p, "siteId")
    \/ p.operation = "get-content-by-reference" /\ ~Has(p, "contentReference")
    \/ p.operation = "get-content-by-guid" /\ ~Has(p, "contentGuid")
    \/ p.operation = "get-content-by-url" /\ ~Has(p, "contentUrl")
    \/ p.operation = "get-children" /\ ~Has(p, "contentReference")
                                    /\ ~Has(p, "contentGuid")

\* C2: a cmsContentDelivery call with an operation that is not exactly one of
\* the six identifiers throws 'Unknown operation: <operation>', a call of a
\* known operation without its required identifying parameter throws, and in
\* both cases fetch is not called and no envelope is returned.
ValidationFailureThrowsBeforeFetch ==
    Called("cmsContentDelivery") =>
        /\ parameters.operation \notin KnownOperations =>
              /\ outcome = Raised(<<"Unknown operation: ", parameters.operation>>)
              /\ fetchLog = <<>>
              /\ pc = "done"
        /\ RequiredAbsent(parameters) =>
              /\ outcome.kind = "raised"
              /\ fetchLog = <<>>
              /\ pc = "done"

UnknownOperationByCaseThrown ==
    /\ Called("cmsContentDelivery")
    /\ parameters.operation = "GET-ALL-SITES"
    /\ outcome = Raised(<<"Unknown operation: ", "GET-ALL-SITES">>)
    /\ fetchLog = <<>>

\* C3: a response that declares application/json and whose body is not JSON
\* ends in an envelope whose data or error is the raw text of the body; the
\* call does not throw.
InvalidJsonFallsBackToText ==
    (Responded /\ DeclaresJson(response) /\ response.body \notin JsonTexts
       /\ ~response.streamFails) =>
        /\ outcome.kind = "returned"
        /\ IF outcome.envelope.success
           THEN outcome.envelope.data = [text |-> response.body]
           ELSE outcome.envelope.error = [text |-> response.body]

\* C4: once validation has passed, a response with a status outside 200..299
\* is returned as an envelope with success false and the response's status
\* and statusText, never thrown; a rejected fetch or a failed body read is
\* thrown as the adapter's label followed by the failure's message.
FailureClassification ==
    (pc = "done" /\ Requested) =>
        IF response = NoResponse
        THEN \E m \in FetchErrors : outcome = Raised(<<Label(adapter), m>>)
        ELSE IF response.streamFails
        THEN outcome = Raised(<<Label(adapter), "terminated">>)
        ELSE (response.status < 200 \/ response.status > 299) =>
                /\ outcome.kind = "returned"
                /\ ~outcome.envelope.success
                /\ outcome.envelope.status = response.status
                /\ outcome.envelope.statusText = response.statusText

\* cmsUrl without its one trailing slash, when it has one.
StrippedOnce(u) ==
    CHOOSE b \in {u, SubSeq(u, 1, Len(u) - 1)} :
        IF u[Len(u)] = "/" THEN b \o <<"/">> = u ELSE b = u

\* C5: the requested URL is cmsUrl without exactly one trailing slash,
\* followed by a path that begins with /api/episerver/v3.0/; for a base URL
\* with at most one trailing slash there is exactly one slash between the
\* two, and get-content-by-reference of '5' resolves to
\* https://host.example/api/episerver/v3.0/content/5 with and without it.
OneSlashBetweenBaseAndPath ==
    Requested =>
        LET u == parameters.cmsUrl
            b == StrippedOnce(u)
            url == fetchLog[1].url
        IN  /\ SubSeq(url, 1, Len(b)) = b
            /\ SubSeq(url, Len(b) + 1, Len(b) + Len(ApiPrefix)) = ApiPrefix
            /\ b[Len(b)] # "/" =>
                  url[Len(b) + 1] = "/" /\ url[Len(b) + 2] # "/"
            /\ (/\ adapter = "cmsContentDelivery"
                /\ u \in {Origin, Origin \o <<"/">>}
                /\ parameters.operation = "get-content-by-reference"
                /\ parameters.contentReference = "5"
                /\ parameters.expand = <<>> /\ parameters.select = <<>>) =>
                  url = <<"https:", "/", "/", "host.example", "/", "api", "/",
                          "episerver", "/", "v3.0", "/", "content", "/", "5">>

TrailingSlashBaseResolved ==
    /\ Requested
    /\ parameters.cmsUrl = Origin \o <<"/">>
    /\ fetchLog[1].url = <<"https:", "/", "/", "host.example", "/", "api", "/",
                           "episerver", "/", "v3.0", "/", "content", "/", "5">>

\* C6: in the URL cmsContentDelivery requests, contentUrl= appears only for
\* get-content-by-url and top= only for get-children, each of the query
\* parameters only when the caller supplied it and (expand, select) whenever
\* it is present; the operation's own parameter comes before expand and
\* expand before select whatever the caller's order; the first is preceded by
\* the only '?', each other one by '&', and there is no '?' without them.
QueryInDeclaredOrder ==
    (Called("cmsContentDelivery") /\ Requested) =>
        LET p == parameters
            url == fetchLog[1].url
            own == IF p.operation = "get-content-by-url" THEN "contentUrl="
                   ELSE "top="
            names == <<own, "expand=", "select=">>
            included == {i \in 1..3 : Pos(url, names[i]) > 0}
        IN  /\ Pos(url, "contentUrl=") > 0 =>
                  p.operation = "get-content-by-url" /\ Has(p, "contentUrl")
            /\ Pos(url, "top=") > 0 =>
                  p.operation = "get-children" /\ Has(p, "top")
            /\ Pos(url, "expand=") > 0 <=> PresentSeq("expand", p.expand)
            /\ Pos(url, "select=") > 0 <=> PresentSeq("select", p.select)
            /\ \A i, j \in included :
                  i < j => Pos(url, names[i]) < Pos(url, names[j])
            /\ \A i \in included :
                  /\ Count(url, names[i]) = 1
                  /\ url[Pos(url, names[i]) - 1] =
                        (IF \A j \in included : i <= j THEN "?" ELSE "&")
            /\ Count(url, "?") = (IF included = {} THEN 0 ELSE 1)
            /\ Count(url, "&") =
                  (IF included = {} THEN 0 ELSE Cardinality(included) - 1)

ThreeQueryParametersReordered ==
    /\ Called("cmsContentDelivery") /\ Requested
    /\ parameters.operation = "get-content-by-url"
    /\ Pos(parameters.keys, "select") < Pos(parameters.keys, "expand")
    /\ Pos(parameters.keys, "expand") < Pos(parameters.keys, "contentUrl")
    /\ Pos(fetchLog[1].url, "contentUrl=") > 0
    /\ Pos(fetchLog[1].url, "contentUrl=") < Pos(fetchLog[1].url, "expand=")
    /\ Pos(fetchLog[1].url, "expand=") < Pos(fetchLog[1].url, "select=")

\* The part of the URL after cmsUrl's base and before the query.
PathOf(url) ==
    LET b == StrippedOnce(parameters.cmsUrl)
        q == Pos(url, "?")
    IN  SubSeq(url, Len(b) + 1, IF q = 0 THEN Len(url) ELSE q - 1)

\* C7: get-children requests /api/episerver/v3.0/content/<contentReference>/children
\* when contentReference is present, else .../content/<contentGuid>/children
\* when contentGuid is present, else throws before fetch; a supplied top is
\* appended as top=<top>.
ChildrenByFirstPresent ==
    (Called("cmsContentDelivery") /\ parameters.operation = "get-children") =>
        LET p == parameters
            ref == PresentStr("contentReference", p.contentReference)
            guid == PresentStr("contentGuid", p.contentGuid)
        IN  /\ (~ref /\ ~guid) => outcome.kind = "raised" /\ fetchLog = <<>>
            /\ Requested =>
                  /\ PathOf(fetchLog[1].url) =
                        ApiPrefix \o <<"content", "/",
                                       IF ref THEN p.contentReference
                                       ELSE p.contentGuid,
                                       "/", "children">>
                  /\ Has(p, "top") =>
                        LET url == fetchLog[1].url
                            at == Pos(url, "top=")
                            digits == NumberToString(p.top)
                        IN  /\ at > 0
                            /\ url[at - 1] = "?"
                            /\ SubSeq(url, at + 1, at + Len(digits)) = digits

\* The operation is known and its identifying parameter is not empty.
PassesValidation ==
    \/ adapter \in {"cmsContentManifest", "cmsContentTypes"}
    \/ /\ adapter = "cmsContentDelivery"
       /\ LET p == parameters IN
          \/ p.operation = "get-all-sites"
          \/ p.operation = "get-site-by-id" /\ p.siteId # ""
          \/ p.operation = "get-content-by-reference" /\ p.contentReference # ""
          \/ p.operation = "get-content-by-guid" /\ p.contentGuid # ""
          \/ p.operation = "get-content-by-url" /\ p.contentUrl # <<>>
          \/ p.operation = "get-children"
             /\ (p.contentReference # "" \/ p.contentGuid # "")

\* A query value the call percent-encodes holds a lone surrogate.
QueryValueMalformed ==
    /\ adapter = "cmsContentDelivery"
    /\ \/ parameters.operation = "get-content-by-url" /\ Malformed(parameters.contentUrl)
       \/ Malformed(parameters.expand)
       \/ Malformed(parameters.select)

\* C8 as claimed: a call that passes validation has called fetch exactly once
\* when it ends.
OneFetchAfterValidation ==
    (pc = "done" /\ PassesValidation) => Len(fetchLog) = 1

\* C8: a call never calls fetch twice, and each call of fetch is a GET of
\* the resolved URL; a call that passes validation and whose query values
\* percent-encode has called fetch exactly once, any other call not at all
\* and it has thrown; a call has an outcome exactly when it has ended.
OneFetchUnlessUrlNotBuilt ==
    /\ Len(fetchLog) <= 1
    /\ \A i \in DOMAIN fetchLog :
          fetchLog[i].method = "GET" /\ fetchLog[i].url = fullUrl
    /\ pc = "done" <=> outcome.kind \in {"returned", "raised"}
    /\ pc # "idle" =>
          IF PassesValidation /\ ~QueryValueMalformed
          THEN Len(fetchLog) = 1
          ELSE Len(fetchLog) = 0 /\ outcome.kind = "raised"

FailedFetchNotRetried ==
    /\ pc = "done"
    /\ PassesValidation
    /\ Len(fetchLog) = 1
    /\ outcome = Raised(<<Label(adapter), "fetch failed">>)

\* C9: every request carries Accept and Content-Type application/json; a
\* request of cmsContentManifest or cmsContentTypes carries Authorization:
\* Bearer <authToken> exactly when authToken is present; a request of
\* cmsContentDelivery carries Accept-Language: <language> exactly when
\* language is present.
RequestHeaders ==
    \A i \in DOMAIN fetchLog :
        LET h == fetchLog[i].headers
            p == parameters
        IN  /\ "Accept" \in DOMAIN h /\ h["Accept"] = <<"application/json">>
            /\ "Content-Type" \in DOMAIN h
            /\ h["Content-Type"] = <<"application/json">>
            /\ adapter \in {"cmsContentManifest", "cmsContentTypes"} =>
                  /\ "Authorization" \in DOMAIN h
                        <=> PresentStr("authToken", p.authToken)
                  /\ "Authorization" \in DOMAIN h =>
                        h["Authorization"] = <<"Bearer ", p.authToken>>
            /\ adapter = "cmsContentDelivery" =>
                  /\ "Accept-Language" \in DOMAIN h
                        <=> PresentStr("language", p.language)
                  /\ "Accept-Language" \in DOMAIN h =>
                        h["Accept-Language"] = <<p.language>>

AnonymousRequestSent ==
    /\ adapter = "cmsContentManifest"
    /\ Requested
    /\ ~Has(parameters, "authToken")
    /\ DOMAIN fetchLog[1].headers = {"Accept", "Content-Type"}

\* C10: every returned envelope's url is the URL fetch was called with, and
\* the envelope has the response's headers exactly when success is true.
EnvelopeUrlAndHeaders ==
    outcome.kind = "returned" =>
        LET e == outcome.envelope IN
        /\ Len(fetchLog) = 1
        /\ e.url = fetchLog[1].url
        /\ "headers" \in DOMAIN e <=> e.success
        /\ e.success => e.headers = response.headers

FailureEnvelopeOmitsHeaders ==
    /\ outcome.kind = "returned"
    /\ ~outcome.envelope.success
    /\ "content-type" \in DOMAIN response.headers
    /\ "headers" \notin DOMAIN outcome.envelope
    /\ outcome.envelope.url = fetchLog[1].url

====
